---- MODULE Spec2Model ----
(***************************************************************************)
(* A model of src/main.py: the momtobe API.  Five request handlers over a  *)
(* document store (collections "product" and "message"), an outbound image *)
(* fetch and the process environment.  The web framework may run handlers  *)
(* of different requests concurrently, so a handler that makes several     *)
(* store calls is modelled as one atomic step per call.                    *)
(*                                                                         *)
(* Strings of the source that are not ASCII are transliterated and the     *)
(* marks in front of the diagnostic texts are left out (the module         *)
(* language has ASCII strings only); prices are in hundredths.  The store  *)
(* adapter and the schemas are modules of their own (database, schemas):   *)
(* they are modelled by their contract, a collection being a bag of        *)
(* documents without the store's _id, which list_products drops anyway.    *)
(***************************************************************************)
EXTENDS Bags, FiniteSets, Integers, Sequences, TLC

VARIABLES
    db,        \* the store handle imported from database: "None" or "handle"
    environ,   \* os.environ restricted to DATABASE_URL and DATABASE_NAME
    product,   \* the "product" collection: a bag of documents
    message,   \* the "message" collection: a bag of documents
    faults,    \* the store calls that raised so far: a bag of <<call, collection, n>>
    fetched,   \* the urls an outbound requests.get was attempted for
    handler,   \* handler[r]: the handler serving request r ("none": not arrived)
    pc,        \* pc[r]: where request r's handler stands
    count,     \* count[r]: _seed_products_if_empty's local count, <<>> unset
    idx,       \* idx[r]: position of the seeding loop in sample_products
    url,       \* url[r]: proxy_image's parameter once it passed the check
    resp,      \* resp[r]: what proxy_image's requests.get gave, <<>> unset
    last       \* the response most recently sent

vars == <<db, environ, product, message, faults, fetched,
          handler, pc, count, idx, url, resp, last>>

-----------------------------------------------------------------------------
(* Bounds of the model. *)

\* Requests served in one run (each may overlap with every other one).
MaxReq == 2

\* Store calls that raise in one run.
MaxFail == 2

Req == 1..MaxReq

-----------------------------------------------------------------------------
(* Python values. *)

\* Optional[T]: <<>> is None, <<v>> is v.
None == <<>>

Some(v) == <<v>>

\* bool(s) of a str: the empty string is falsy.
Truthy(s) == s # ""

\* s.startswith(prefix), strings as sequences of characters.
startswith(s, prefix) ==
    /\ Len(s) >= Len(prefix)
    /\ SubSeq(s, 1, Len(prefix)) = prefix

\* s[:n]
Slice(s, n) == SubSeq(s, 1, IF Len(s) < n THEN Len(s) ELSE n)

-----------------------------------------------------------------------------
(* The four fixed sample records of _seed_products_if_empty. *)

sample_products == <<
    [ title       |-> "Komfortnoe plate dlya budushchikh mam",
      description |-> "Myagkoe trikotazhnoe plate s rastushchey taliey.",
      price       |-> 5999,
      category    |-> "Platya",
      in_stock    |-> TRUE,
      image_url   |-> "https://images.unsplash.com/photo-1556898578-c07eaed1f7f7?q=80&w=1200&auto=format&fit=crop",
      sizes       |-> <<"S", "M", "L", "XL">>,
      is_featured |-> TRUE ],
    [ title       |-> "Dzhinsy dlya beremennykh",
      description |-> "Elastichnyy poyas, udobnaya posadka i prochnaya tkan.",
      price       |-> 6999,
      category    |-> "Dzhinsy",
      in_stock    |-> TRUE,
      image_url   |-> "https://images.unsplash.com/photo-1515378791036-0648a3ef77b2?q=80&w=1200&auto=format&fit=crop",
      sizes       |-> <<"S", "M", "L">>,
      is_featured |-> TRUE ],
    [ title       |-> "Futbolka Basic",
      description |-> "Dyshashchiy khlopok, svobodnyy kroy dlya zhivota.",
      price       |-> 2499,
      category    |-> "Topy",
      in_stock    |-> TRUE,
      image_url   |-> "https://images.unsplash.com/photo-1512436991641-6745cdb1723f?q=80&w=1200&auto=format&fit=crop",
      sizes       |-> <<"S", "M", "L", "XL">>,
      is_featured |-> FALSE ],
    [ title       |-> "Teplyy kardigan",
      description |-> "Myagkiy oversayz-kardigan na osen i zimu.",
      price       |-> 8900,
      category    |-> "Verkhnyaya odezhda",
      in_stock    |-> TRUE,
      image_url   |-> "https://images.unsplash.com/photo-1515378791036-0648a3ef77b2?q=80&w=1200&auto=format&fit=crop",
      sizes       |-> <<"M", "L">>,
      is_featured |-> FALSE ] >>

-----------------------------------------------------------------------------
(* The document store adapter (module database) and the schemas.           *)

\* The text of the exception a failing store call raises.
StoreError == "store error"

\* The text of the exception a store call raises when there is no handle.
NoDatabase == "Database not available"

\* A store call may raise while the run's failures are not used up.
MayFail == BagCardinality(faults) < MaxFail

\* The record of a raised store call.
Fault(call, collection, n) == SetToBag({<<call, collection, n>>})

\* Product(**d): the schema keeps the eight fields of a product.
Product(d) ==
    [ title |-> d.title, description |-> d.description, price |-> d.price,
      category |-> d.category, in_stock |-> d.in_stock,
      image_url |-> d.image_url, sizes |-> d.sizes,
      is_featured |-> d.is_featured ]

\* Message(**data): the schema keeps name, email and message.
Message(d) == [ name |-> d.name, email |-> d.email, message |-> d.message ]

\* create_document(collection, record): the collection with the record added.
create_document(collection, record) == collection (+) SetToBag({record})

\* The identifier the store gives the next inserted document.
inserted_id == BagCardinality(product) + BagCardinality(message) + 1

\* str(n) of a positive identifier: its decimal digits.
RECURSIVE str(_)
str(n) ==
    IF n < 10 THEN <<n>> ELSE Append(str(n \div 10), n % 10)

\* get_documents(collection, filt): the documents equal to filt on its keys.
Matches(d, filt) == \A k \in DOMAIN filt : d[k] = filt[k]

get_documents(collection, filt) ==
    LET keep == {d \in BagToSet(collection) : Matches(d, filt)}
    IN  [d \in keep |-> CopiesIn(d, collection)]

\* db["product"].count_documents({})
count_documents(collection) == BagCardinality(collection)

-----------------------------------------------------------------------------
(* Responses. *)

NoResponse == [handler |-> "none"]

HTTPException(status_code, detail) ==
    [status |-> status_code, detail |-> detail]

-----------------------------------------------------------------------------
(* Requests. *)

\* Requests arrive in the order of their numbers.
Arrives(r) ==
    /\ handler[r] = "none"
    /\ \A q \in Req : q < r => handler[q] # "none"

\* Request r's handler moves; the other requests stay where they are.
Move(r, h, p, c, i, u) ==
    /\ handler' = [handler EXCEPT ![r] = h]
    /\ pc' = [pc EXCEPT ![r] = p]
    /\ count' = [count EXCEPT ![r] = c]
    /\ idx' = [idx EXCEPT ![r] = i]
    /\ url' = [url EXCEPT ![r] = u]
    /\ UNCHANGED resp

Goto(r, p) == Move(r, handler[r], p, count[r], idx[r], url[r])

-----------------------------------------------------------------------------
(* GET /api/products: _seed_products_if_empty, then list_products.         *)

\* Lines 29-31: the handle check and the count.  Without a handle the
\* routine returns; a raising count is swallowed by the outer except.
seed_count(r) ==
    /\ Arrives(r)
    /\ UNCHANGED <<db, environ, product, message, fetched, last>>
    /\ IF db = "None"
       THEN /\ Move(r, "list_products", "query", None, 0, None)
            /\ UNCHANGED faults
       ELSE \/ /\ Move(r, "list_products", "counted",
                       Some(count_documents(product)), 0, None)
               /\ UNCHANGED faults
            \/ /\ MayFail
               /\ faults' = faults (+) Fault("count_documents", "product", 0)
               /\ Move(r, "list_products", "query", None, 0, None)

\* The test of line 32 turned round: seeding when there are products.
ShouldSeed_inverted(c) == c # 0

\* The test of line 32 as "fewer than the samples": a partial seeding topped up.
ShouldSeed_below_four(c) == c < Len(sample_products)

\* Line 32: seed only when the count is exactly zero.
ShouldSeed(c) == c = 0

seed_branch(r) ==
    /\ handler[r] = "list_products"
    /\ pc[r] = "counted"
    /\ UNCHANGED <<db, environ, product, message, faults, fetched, last>>
    /\ IF ShouldSeed(count[r][1])
       THEN Move(r, handler[r], "seed", count[r], 1, None)
       ELSE Goto(r, "query")

\* Where the loop of lines 75-80 stands after the insert of record i.
AfterInsert(r, i) ==
    IF i < Len(sample_products)
    THEN Move(r, handler[r], "seed", count[r], i + 1, None)
    ELSE Move(r, handler[r], "query", count[r], 0, None)

\* Lines 78-80 without the inner try: a raising insert ends the loop, caught
\* only by the outer except.
AfterFailedInsert_abort(r, i) == Move(r, handler[r], "query", count[r], 0, None)

\* Lines 78-80: a raising insert is passed over and the loop goes on.
AfterFailedInsert(r, i) == AfterInsert(r, i)

\* Line 77 with a record altered on its way into the store.
seed_document_altered(i) ==
    [Product(sample_products[i]) EXCEPT !.in_stock = FALSE]

\* Line 77: the record inserted for sample_products[i].
seed_document(i) == Product(sample_products[i])

\* Lines 75-80: one turn of the loop, the insert of sample_products[idx].
seed_insert(r) ==
    /\ handler[r] = "list_products"
    /\ pc[r] = "seed"
    /\ UNCHANGED <<db, environ, message, fetched, last>>
    /\ LET i == idx[r]
       IN  \/ /\ product' = create_document(product, seed_document(i))
              /\ UNCHANGED faults
              /\ AfterInsert(r, i)
           \/ /\ MayFail
              /\ faults' = faults (+) Fault("create_document", "product", i)
              /\ UNCHANGED product
              /\ AfterFailedInsert(r, i)

\* Lines 89-93 with "if featured:" for "if featured is not None:".
Filter_truthy_featured(category, featured) ==
    LET keys == (IF category # None /\ Truthy(category[1])
                 THEN {"category"} ELSE {})
                \cup (IF featured # None /\ featured[1]
                      THEN {"is_featured"} ELSE {})
    IN  [k \in keys |-> IF k = "category" THEN category[1] ELSE featured[1]]

\* Lines 89-93: the filter built from the query parameters.
Filter(category, featured) ==
    LET keys == (IF category # None /\ Truthy(category[1])
                 THEN {"category"} ELSE {})
                \cup (IF featured # None THEN {"is_featured"} ELSE {})
    IN  [k \in keys |-> IF k = "category" THEN category[1] ELSE featured[1]]

\* Lines 94-102: the query and the response built from it.
list_query(r, category, featured) ==
    /\ handler[r] = "list_products"
    /\ pc[r] = "query"
    /\ UNCHANGED <<db, environ, product, message, fetched>>
    /\ Goto(r, "done")
    /\ LET args == [category |-> category, featured |-> featured]
           filt == Filter(category, featured)
       IN  IF db = "None"
           THEN /\ last' = [handler |-> "list_products", args |-> args,
                            status |-> 500, detail |-> NoDatabase]
                /\ UNCHANGED faults
           ELSE \/ /\ last' = [handler |-> "list_products", args |-> args,
                               status |-> 200,
                               body |-> BagOfAll(Product,
                                           get_documents(product, filt))]
                   /\ UNCHANGED faults
                \/ /\ MayFail
                   /\ faults' = faults (+) Fault("get_documents", "product", 0)
                   /\ last' = [handler |-> "list_products", args |-> args,
                               status |-> 500, detail |-> StoreError]

\* The query parameters a request may carry.
Categories == {None, Some(""), Some("Platya"), Some("Topy"), Some("Shoes")}

Featured == {None, Some(TRUE), Some(FALSE)}

-----------------------------------------------------------------------------
(* GET /: read_root. *)

read_root(r) ==
    /\ Arrives(r)
    /\ UNCHANGED <<db, environ, product, message, faults, fetched>>
    /\ Move(r, "read_root", "done", None, 0, None)
    /\ last' = [handler |-> "read_root", status |-> 200,
                body |-> [name |-> "momtobe", message |-> "API running"]]

-----------------------------------------------------------------------------
(* POST /api/contact: contact. *)

\* Lines 114-115 writing the collection anew instead of adding to it.
save_message_overwrite(data) == SetToBag({Message(data)})

\* Lines 114-115 with the insert made twice.
save_message_twice(data) ==
    create_document(create_document(message, Message(data)), Message(data))

\* Lines 114-115: the record made of the body is added to "message".
save_message(data) == create_document(message, Message(data))

\* Lines 113-118: the insert and the response; an exception of the insert
\* becomes a 500 carrying its text.
contact(r, data) ==
    /\ Arrives(r)
    /\ UNCHANGED <<db, environ, product, fetched>>
    /\ Move(r, "contact", "done", None, 0, None)
    /\ IF db = "None"
       THEN /\ last' = [handler |-> "contact", args |-> data,
                        status |-> 500, detail |-> NoDatabase]
            /\ UNCHANGED <<message, faults>>
       ELSE \/ /\ message' = save_message(data)
               /\ last' = [handler |-> "contact", args |-> data,
                           status |-> 200,
                           body |-> [status |-> "ok",
                                     id |-> str(inserted_id)]]
               /\ UNCHANGED faults
            \/ /\ MayFail
               /\ faults' = faults (+) Fault("create_document", "message", 0)
               /\ last' = [handler |-> "contact", args |-> data,
                           status |-> 500, detail |-> StoreError]
               /\ UNCHANGED message

\* The bodies a contact request may carry: three strings, which may be empty.
ContactRequests ==
    { [name |-> "Anna", email |-> "anna@example.com", message |-> "Hello"],
      [name |-> "", email |-> "", message |-> ""] }

-----------------------------------------------------------------------------
(* GET /api/proxy-image: proxy_image. *)

HttpPrefix == <<"h", "t", "t", "p", ":", "/", "/">>

HttpsPrefix == <<"h", "t", "t", "p", "s", ":", "/", "/">>

\* Line 127 testing for "http" alone.
ValidScheme_http_only(u) == startswith(u, <<"h", "t", "t", "p">>)

\* Line 127: the scheme check.
ValidScheme(u) == startswith(u, HttpPrefix) \/ startswith(u, HttpsPrefix)

\* Lines 148-151 without "except HTTPException: raise": every exception of
\* the try block becomes a 502.
proxy_except_all_502(u, e) ==
    [handler |-> "proxy_image", args |-> u, status |-> 502,
     content |-> IF e.type = "HTTPException" THEN e.detail ELSE e.text]

\* Lines 148-151: an HTTPException raised in the try block is raised again
\* and answered with its own status; any other exception becomes a 502
\* carrying its text.
proxy_except(u, e) ==
    IF e.type = "HTTPException"
    THEN [handler |-> "proxy_image", args |-> u,
          status |-> e.status, detail |-> e.detail]
    ELSE [handler |-> "proxy_image", args |-> u,
          status |-> 502, content |-> e.text]

\* Lines 126-128: the check comes first; a url that fails it is answered
\* with a 400 and the handler ends.
proxy_check(r, u) ==
    /\ Arrives(r)
    /\ UNCHANGED <<db, environ, product, message, faults, fetched>>
    /\ IF ~ValidScheme(u)
       THEN /\ Move(r, "proxy_image", "done", None, 0, None)
            /\ last' = proxy_except(u,
                           [type |-> "HTTPException"]
                           @@ HTTPException(400, "Invalid URL"))
       ELSE /\ Move(r, "proxy_image", "fetch", None, 0, Some(u))
            /\ UNCHANGED last

\* Lines 130-134: the outbound GET, which gives a response or raises.
proxy_fetch(r, outcome) ==
    /\ handler[r] = "proxy_image"
    /\ pc[r] = "fetch"
    /\ UNCHANGED <<db, environ, product, message, faults, last>>
    /\ fetched' = fetched \cup {url[r][1]}
    /\ handler' = handler
    /\ pc' = [pc EXCEPT ![r] = "fetched"]
    /\ resp' = [resp EXCEPT ![r] = Some(outcome)]
    /\ UNCHANGED <<count, idx, url>>

\* Lines 139-142: the chunks passed on, the empty ones left out.
iter_content(chunks) == SelectSeq(chunks, LAMBDA c : c # "")

\* Lines 135-151: the response made of what the GET gave.
proxy_respond(r) ==
    /\ handler[r] = "proxy_image"
    /\ pc[r] = "fetched"
    /\ UNCHANGED <<db, environ, product, message, faults, fetched>>
    /\ handler' = handler
    /\ pc' = [pc EXCEPT ![r] = "done"]
    /\ resp' = [resp EXCEPT ![r] = None]
    /\ url' = [url EXCEPT ![r] = None]
    /\ UNCHANGED <<count, idx>>
    /\ LET u == url[r][1]
           got == resp[r][1]
       IN  IF got.kind = "raised"
           THEN last' = proxy_except(u, [type |-> "Exception",
                                         text |-> got.text])
           ELSE LET content_type ==
                        IF got.content_type = None
                        THEN "image/jpeg" ELSE got.content_type[1]
                IN  IF ~got.ok
                    THEN last' = proxy_except(u,
                                     [type |-> "HTTPException"]
                                     @@ HTTPException(404, "Image not found"))
                    ELSE last' =
                           [handler |-> "proxy_image", args |-> u,
                            status |-> 200,
                            media_type |-> content_type,
                            headers |->
                              [Cache_Control |-> "public, max-age=86400",
                               Access_Control_Allow_Origin |-> "*"],
                            body |-> iter_content(got.chunks)]

\* The urls a proxy request may carry.
Urls ==
    { <<"h", "t", "t", "p", ":", "/", "/", "a">>,
      <<"h", "t", "t", "p", "s", ":", "/", "/", "a">>,
      <<"H", "T", "T", "P", ":", "/", "/", "a">>,
      <<"h", "t", "t", "p", ":", "/", "a">>,
      <<"f", "t", "p", ":", "/", "/", "a">>,
      <<>> }

\* What the outbound GET may give: an upstream response, successful or
\* not, with or without a content type, or an exception.
Outcomes ==
    [ kind : {"response"}, ok : BOOLEAN,
      content_type : {None, Some("image/png")},
      chunks : {<<"c1", "", "c2">>} ]
    \cup [ kind : {"raised"}, text : {"timed out", "connection refused"} ]

-----------------------------------------------------------------------------
(* GET /test: test_database. *)

\* os.getenv(name)
getenv(name) == environ[name]

\* The name of the database behind the handle.
DbName == "momtobe"

\* The collections of the store, as db.list_collection_names() gives them.
list_collection_names ==
    (IF message # EmptyBag THEN <<"message">> ELSE <<>>)
    \o (IF product # EmptyBag THEN <<"product">> ELSE <<>>)

\* The texts of the exceptions list_collection_names may raise.
ErrorTexts ==
    { <<"d", "o", "w", "n">>, [i \in 1..60 |-> "x"] }

\* Lines 182-183: what the response says of an environment variable.
EnvReport(name) ==
    IF getenv(name) # None /\ Truthy(getenv(name)[1])
    THEN "Set" ELSE "Not Set"

\* Lines 182-183 left out: the two fields stay as the handle left them.
report_environment_kept(response) == response

\* Lines 182-183: the two fields are set last, whatever came before.
report_environment(response) ==
    [response EXCEPT !.database_url = EnvReport("DATABASE_URL"),
                     !.database_name = EnvReport("DATABASE_NAME")]

\* Lines 157-184: the response, built field by field; listed is what
\* list_collection_names gave, [raised |-> TRUE, text |-> ..] when it raised.
\* The None of the two fields set last is written "None".
test_database_response(listed) ==
    LET response ==
            [ backend |-> "Running",
              database |-> <<"Not Available">>,
              database_url |-> "None",
              database_name |-> "None",
              connection_status |-> "Not Connected",
              collections |-> <<>> ]
        connected ==
            [response EXCEPT !.database = <<"Available">>,
                             !.database_url = "Configured",
                             !.database_name = DbName,
                             !.connection_status = "Connected"]
        tried ==
            IF db # "None"
            THEN IF listed.raised
                 THEN [connected EXCEPT
                         !.database = <<"Connected but Error: ",
                                        Slice(listed.text, 50)>>]
                 ELSE [connected EXCEPT
                         !.collections = Slice(listed.names, 10),
                         !.database = <<"Connected & Working">>]
            ELSE [response EXCEPT
                    !.database = <<"Available but not initialized">>]
    IN  report_environment(tried)

test_database(r) ==
    /\ Arrives(r)
    /\ UNCHANGED <<db, environ, product, message, fetched>>
    /\ Move(r, "test_database", "done", None, 0, None)
    /\ \/ /\ UNCHANGED faults
          /\ last' = [handler |-> "test_database", status |-> 200,
                      body |-> test_database_response(
                                 [raised |-> FALSE,
                                  names |-> list_collection_names])]
       \/ /\ db # "None"
          /\ MayFail
          /\ \E text \in ErrorTexts :
               /\ faults' = faults (+) Fault("list_collection_names", "", 0)
               /\ last' = [handler |-> "test_database", status |-> 200,
                           body |-> test_database_response(
                                      [raised |-> TRUE, text |-> text])]

-----------------------------------------------------------------------------
(* Specifications. *)

Environs == [{"DATABASE_URL", "DATABASE_NAME"} -> {None, Some(""), Some("set")}]

NoEnviron == [v \in {"DATABASE_URL", "DATABASE_NAME"} |-> None]

Init ==
    /\ db \in {"None", "handle"}
    /\ environ \in Environs
    /\ product = EmptyBag
    /\ message = EmptyBag
    /\ faults = EmptyBag
    /\ fetched = {}
    /\ handler = [r \in Req |-> "none"]
    /\ pc = [r \in Req |-> "idle"]
    /\ count = [r \in Req |-> None]
    /\ idx = [r \in Req |-> 0]
    /\ url = [r \in Req |-> None]
    /\ resp = [r \in Req |-> None]
    /\ last = NoResponse

NextProducts ==
    \E r \in Req :
        \/ seed_count(r)
        \/ seed_branch(r)
        \/ seed_insert(r)
        \/ \E c \in Categories, f \in Featured : list_query(r, c, f)

\* The store and the product handlers never read the environment: where
\* only they are looked at, one environment stands for all.
InitNoEnviron == Init /\ environ = NoEnviron

SpecProducts == InitNoEnviron /\ [][NextProducts]_vars

\* Contact, proxy, diagnostic and root requests, with all their inputs.
NextOther ==
    \E r \in Req :
        \/ read_root(r)
        \/ \E data \in ContactRequests : contact(r, data)
        \/ \E u \in Urls : proxy_check(r, u)
        \/ \E outcome \in Outcomes : proxy_fetch(r, outcome)
        \/ proxy_respond(r)
        \/ test_database(r)

SpecOther == Init /\ [][NextOther]_vars

\* Every handler, requests of all five endpoints interleaved.
Next ==
    \E r \in Req :
        \/ read_root(r)
        \/ seed_count(r)
        \/ seed_branch(r)
        \/ seed_insert(r)
        \/ \E f \in Featured : list_query(r, None, f)
        \/ \E data \in ContactRequests : contact(r, data)
        \/ \E u \in Urls : proxy_check(r, u)
        \/ \E outcome \in Outcomes : proxy_fetch(r, outcome)
        \/ proxy_respond(r)
        \/ test_database(r)

Spec == InitNoEnviron /\ [][Next]_vars

-----------------------------------------------------------------------------
(* Properties of GET /api/products, checked under SpecProducts.            *)

\* The four sample records, each once.
FourSamples == SetToBag({sample_products[i] : i \in 1..Len(sample_products)})

\* Request r's handler takes the step.
Steps(r) == <<handler[r], pc[r], idx[r]>> # <<handler'[r], pc'[r], idx'[r]>>

\* r is a product-list request that is past its seeding.
Seeded(r) == handler[r] = "list_products" /\ pc[r] \in {"query", "done"}

\* r is the only request that has arrived so far.
Alone(r) == \A q \in Req \ {r} : handler[q] = "none"

\* The number of inserts of sample i that raised.
InsertFailures(i) == CopiesIn(<<"create_document", "product", i>>, faults)

NoInsertFailed == \A i \in 1..Len(sample_products) : InsertFailures(i) = 0

C2_NonEmptyUntouched ==
    [][\A r \in Req :
         Steps(r) =>
            /\ (handler[r] = "none" /\ product # EmptyBag)
                  => (pc'[r] # "seed" /\ count'[r] # Some(0))
            /\ count'[r] # Some(0) => product' = product
            /\ (pc[r] = "counted" /\ count[r] # Some(0))
                  => pc'[r] = "query"]_vars

\* A request has answered after counting a collection that an earlier,
\* partly failed seeding left with fewer than four records.
C2_Witness ==
    \E r \in Req :
        /\ handler[r] = "list_products" /\ pc[r] = "done"
        /\ count[r] # None
        /\ count[r][1] \in 1..(Len(sample_products) - 1)
        /\ BagCardinality(product) = count[r][1]

\* The product-list requests that have arrived.
ListRequests == {r \in Req : handler[r] = "list_products"}

\* C3: interleaved requests may seed more than once, but the collection
\* never holds more than four products per request, and every product in it
\* is one of the four samples.
C3_AtMostDuplicates ==
    /\ BagCardinality(product)
          <= Len(sample_products) * Cardinality(ListRequests)
    /\ BagToSet(product)
          \subseteq {sample_products[i] : i \in 1..Len(sample_products)}

\* Two requests both counted zero and both seeded: more than four products.
C3_Witness ==
    /\ BagCardinality(product) > Len(sample_products)
    /\ \E r, q \in Req :
          r # q /\ count[r] = Some(0) /\ count[q] = Some(0)

\* Request r has made its insert of sample i (the insert returned or raised).
Attempted(r, i) ==
    /\ handler[r] = "list_products"
    /\ count[r] = Some(0)
    /\ \/ pc[r] \in {"query", "done"}
       \/ pc[r] = "seed" /\ idx[r] > i

\* C4: every sample is tried by every seeding request whatever happened to
\* the inserts before it, and each insert that did not raise is in the
\* collection; the response is an error only when the query itself failed.
C4_SeedingFailuresSuppressed ==
    /\ [](\A i \in 1..Len(sample_products) :
            CopiesIn(sample_products[i], product) + InsertFailures(i)
              = Cardinality({r \in Req : Attempted(r, i)}))
    /\ [][\A r \in Req :
            (handler'[r] = "list_products" /\ Steps(r)) =>
               /\ pc[r] \in {"idle", "counted", "seed"} =>
                     (last' = last /\ pc'[r] # "done")
               /\ pc[r] = "query" =>
                     /\ pc'[r] = "done"
                     /\ last'.handler = "list_products"
                     /\ last'.status = 500 =>
                          \/ db = "None"
                          \/ faults' = faults
                                (+) SetToBag({<<"get_documents", "product", 0>>})
                     /\ last'.status # 500 =>
                          /\ last'.status = 200
                          /\ faults' = faults
                          /\ last'.body \sqsubseteq product]_vars

\* A seeding whose first insert raised went on to insert the other three
\* samples, and the request was answered from the query.
C4_Witness ==
    /\ InsertFailures(1) > 0
    /\ \A i \in 2..Len(sample_products) :
          CopiesIn(sample_products[i], product) > 0
    /\ CopiesIn(sample_products[1], product) = 0
    /\ last.handler = "list_products"
    /\ last.status = 200
    /\ BagCardinality(last.body) > 0

\* The sub-bag of the collection whose documents satisfy Want.
Wanted(collection, Want(_)) ==
    LET keep == {d \in BagToSet(collection) : Want(d)}
    IN  [d \in keep |-> CopiesIn(d, collection)]

\* C6 as stated: a successful listing is exactly the stored products that
\* equal every filter that was supplied, a category of any string included.
C6_EverySuppliedFilter ==
    [][\A r \in Req :
         (handler[r] = "list_products" /\ pc[r] = "query" /\ pc'[r] = "done"
            /\ last'.status = 200) =>
         LET a == last'.args
             Want(d) ==
                /\ a.category # None => d.category = a.category[1]
                /\ a.featured # None => d.is_featured = a.featured[1]
         IN  last'.body = Wanted(product, Want)]_vars

\* C6, amended: an empty category counts as no category filter; a
\* successful listing is exactly the stored products whose category equals
\* the non-empty category given and whose is_featured equals the featured
\* flag given, and all of them when neither is given.
C6_EveryNonEmptyFilter ==
    [][\A r \in Req :
         (handler[r] = "list_products" /\ pc[r] = "query" /\ pc'[r] = "done"
            /\ last'.status = 200) =>
         LET a == last'.args
             Want(d) ==
                /\ (a.category # None /\ a.category[1] # "")
                      => d.category = a.category[1]
                /\ a.featured # None => d.is_featured = a.featured[1]
         IN  last'.body = Wanted(product, Want)]_vars

\* A listing with both filters given was answered with the one product that
\* matches both, out of a seeded collection.
C6_Witness ==
    /\ last.handler = "list_products"
    /\ last.status = 200
    /\ last.args = [category |-> Some("Topy"), featured |-> Some(FALSE)]
    /\ BagCardinality(last.body) = 1
    /\ BagCardinality(product) >= Len(sample_products)

-----------------------------------------------------------------------------
(* The store over all five endpoints, checked under Spec.                  *)

\* C5: no step removes or changes a stored product or message; products
\* are added only by the seeding loop of a product-list request, messages
\* only by a contact request; root, proxy and diagnostic requests leave
\* both collections as they are.
C5_AppendOnly ==
    [][/\ product \sqsubseteq product'
       /\ message \sqsubseteq message'
       /\ product' # product =>
             \E r \in Req :
                 handler[r] = "list_products" /\ pc[r] = "seed" /\ Steps(r)
       /\ message' # message =>
             \E r \in Req : handler[r] = "none" /\ handler'[r] = "contact"
       /\ \A r \in Req :
             (Steps(r) /\ handler'[r] \in
                 {"read_root", "proxy_image", "test_database"})
                => (product' = product /\ message' = message)]_vars

\* Products and messages are both stored: a seeding and a contact have run.
C5_Witness ==
    /\ BagCardinality(product) > 0
    /\ BagCardinality(message) > 0
    /\ \E r \in Req : handler[r] = "contact"

-----------------------------------------------------------------------------
(* Contact, proxy and diagnostic requests, checked under SpecOther.        *)

\* C7: a contact request whose insert succeeds is answered "ok" with a
\* non-empty identifier and adds exactly the one record made of its body;
\* one whose insert raises is answered 500 with the exception's text and
\* adds nothing.
C7_ContactOutcome ==
    [][\A r \in Req :
         (handler[r] = "none" /\ handler'[r] = "contact") =>
            /\ last'.handler = "contact"
            /\ pc'[r] = "done"
            /\ IF db = "handle" /\ faults' = faults
               THEN /\ last'.status = 200
                    /\ last'.body.status = "ok"
                    /\ Len(last'.body.id) > 0
                    /\ message' = message (+) SetToBag({
                          [name |-> last'.args.name,
                           email |-> last'.args.email,
                           message |-> last'.args.message]})
               ELSE /\ last'.status = 500
                    /\ last'.detail =
                          IF db = "None" THEN NoDatabase ELSE StoreError
                    /\ message' = message]_vars

\* A contact was answered "ok" after an earlier one had been stored, and
\* the collection holds both.
C7_Witness ==
    /\ last.handler = "contact"
    /\ last.status = 200
    /\ last.body.id = <<2>>
    /\ BagCardinality(message) = 2

\* The url starts with http:// or https://.
HasHttpScheme(u) ==
    \/ startswith(u, <<"h", "t", "t", "p", ":", "/", "/">>)
    \/ startswith(u, <<"h", "t", "t", "p", "s", ":", "/", "/">>)

\* C8: a url that does not start with http:// or https:// is answered 400
\* and is never fetched: only urls that passed the check are waiting for
\* the outbound GET or have had it.
C8_CheckBeforeFetch ==
    /\ \A u \in fetched : HasHttpScheme(u)
    /\ \A r \in Req :
          (handler[r] = "proxy_image" /\ pc[r] # "done")
             => (url[r] # None /\ HasHttpScheme(url[r][1]))
    /\ (last.handler = "proxy_image" /\ ~HasHttpScheme(last.args))
          => last.status = 400

\* A url without the scheme was answered 400 while the only url fetched so
\* far is another one, which has the scheme.
C8_Witness ==
    /\ last.handler = "proxy_image"
    /\ last.status = 400
    /\ last.args = <<"h", "t", "t", "p", ":", "/", "a">>
    /\ fetched # {}
    /\ last.args \notin fetched

\* C9: once the url passed the check the answer follows what the GET gave:
\* an exception gives 502 with its text, an upstream response that is not
\* a success gives 404, a successful one gives the stream with the upstream
\* content type (image/jpeg when there is none) and the cache and CORS
\* headers; and a url that fails the check is answered 400, not 502.
C9_ProxyOutcome ==
    /\ []((last.handler = "proxy_image" /\ ~HasHttpScheme(last.args))
             => last.status = 400)
    /\ [][\A r \in Req :
            (handler[r] = "proxy_image" /\ pc[r] = "fetched"
               /\ pc'[r] = "done") =>
            LET got == resp[r][1]
            IN  /\ last'.handler = "proxy_image"
                /\ last'.args = url[r][1]
                /\ got.kind = "raised" =>
                      (last'.status = 502 /\ last'.content = got.text)
                /\ (got.kind = "response" /\ ~got.ok) =>
                      (last'.status = 404
                         /\ last'.detail = "Image not found")
                /\ (got.kind = "response" /\ got.ok) =>
                      /\ last'.status = 200
                      /\ last'.media_type =
                            (IF got.content_type = <<>> THEN "image/jpeg"
                             ELSE got.content_type[1])
                      /\ last'.headers.Cache_Control
                            = "public, max-age=86400"
                      /\ last'.headers.Access_Control_Allow_Origin = "*"
                      /\ last'.body = <<"c1", "c2">>]_vars

\* A successful upstream response without a content type was passed on as
\* image/jpeg.
C9_Witness ==
    /\ last.handler = "proxy_image"
    /\ last.status = 200
    /\ last.media_type = "image/jpeg"
    /\ last.args \in fetched

\* The answer of the diagnostic endpoint on an environment variable.
Reported(field) ==
    IF field = "database_url" THEN last.body.database_url
    ELSE last.body.database_name

\* C10 as stated: the diagnostic request is always answered with a body,
\* and each of the two fields says "Set" exactly when its variable is set.
C10_SetWhenSet ==
    last.handler = "test_database" =>
        /\ last.status = 200
        /\ Reported("database_url") =
              (IF environ["DATABASE_URL"] # <<>> THEN "Set" ELSE "Not Set")
        /\ Reported("database_name") =
              (IF environ["DATABASE_NAME"] # <<>> THEN "Set" ELSE "Not Set")

\* C10, amended: the diagnostic request is always answered with a body,
\* and each of the two fields says "Set" exactly when its variable is set
\* to a non-empty value, whatever the handle and the store do.
C10_SetWhenNonEmpty ==
    last.handler = "test_database" =>
        /\ last.status = 200
        /\ Reported("database_url") =
              (IF environ["DATABASE_URL"] \notin {<<>>, <<"">>}
               THEN "Set" ELSE "Not Set")
        /\ Reported("database_name") =
              (IF environ["DATABASE_NAME"] \notin {<<>>, <<"">>}
               THEN "Set" ELSE "Not Set")

\* With a handle whose listing of the collections raised, the request was
\* answered, one variable reported set and the other not.
C10_Witness ==
    /\ last.handler = "test_database"
    /\ db = "handle"
    /\ last.body.database[1] = "Connected but Error: "
    /\ Reported("database_url") = "Not Set"
    /\ Reported("database_name") = "Set"

====
